---- MODULE Spec2Model ----
(***************************************************************************)
(* Model of async-openai's Client (src/async-openai/src/client.rs):        *)
(*   - Client::execute, the retrying executor of non-streaming calls       *)
(*     (backoff::future::retry around one attempt closure), and            *)
(*     Client::process_response, the decoder of the non-retrying path;     *)
(*   - Client::stream, the producer task that republishes the events of    *)
(*     an EventSource on an unbounded channel.                             *)
(* Time is counted in ticks; one tick is the unit of the backoff policy.   *)
(***************************************************************************)
EXTENDS Integers, Sequences, FiniteSets, TLC

(***************************************************************************)
(* Bounds of the model.                                                    *)
(***************************************************************************)
MaxInitialInterval == 2     \* initial_interval of the policy ranges over 1..MaxInitialInterval
MaxElapsedTime == 6         \* max_elapsed_time of the policy ranges over 1..MaxElapsedTime
MaxReqTime == 2             \* one HTTP exchange takes 1..MaxReqTime ticks (never no time at all)
MaxOvershoot == 1           \* a sleep ends 0..MaxOvershoot ticks after its deadline

(***************************************************************************)
(* Program constants.                                                      *)
(***************************************************************************)
RateLimitStatus == 429
InsufficientQuota == "insufficient_quota"

(***************************************************************************)
(* HTTP responses.  A response is either a transport failure (when the     *)
(* request is sent, or when the body is read) or a status with body bytes. *)
(***************************************************************************)
Statuses == {200, 404, 429}

BodyAbc == "{\"id\":\"abc\"}"
BodyOk == "{\"id\":\"ok\"}"
BodyRateLimit == "{\"error\":{\"type\":\"rate_limit_exceeded\",\"message\":\"slow down\"}}"
BodyQuota == "{\"error\":{\"type\":\"insufficient_quota\",\"message\":\"no credits\"}}"
BodyBoth == "{\"id\":\"both\",\"error\":{\"type\":\"server_error\",\"message\":\"oops\"}}"
BodyGarbage == "not-json"

Bodies == {BodyAbc, BodyOk, BodyRateLimit, BodyQuota, BodyBoth, BodyGarbage}

NoBody == ""
NoEnvelope == [type |-> "", message |-> ""]

Responses ==
    {[transport |-> "send_failed", status |-> 0, bytes |-> NoBody],
     [transport |-> "body_failed", status |-> 200, bytes |-> NoBody],
     [transport |-> "body_failed", status |-> 429, bytes |-> NoBody]}
    \cup [transport : {"ok"}, status : Statuses, bytes : Bodies]

NoResponse == [transport |-> "none", status |-> 0, bytes |-> NoBody]

\* reqwest::StatusCode::is_success: 200..=299
is_success(status) == status >= 200 /\ status <= 299

\* serde_json::from_slice::<WrappedError>: the body must carry an "error" object
from_slice_WrappedError(bytes) ==
    CASE bytes = BodyRateLimit ->
            [ok |-> TRUE, error |-> [type |-> "rate_limit_exceeded", message |-> "slow down"]]
      [] bytes = BodyQuota ->
            [ok |-> TRUE, error |-> [type |-> InsufficientQuota, message |-> "no credits"]]
      [] bytes = BodyBoth ->
            [ok |-> TRUE, error |-> [type |-> "server_error", message |-> "oops"]]
      [] OTHER -> [ok |-> FALSE, error |-> NoEnvelope]

\* serde_json::from_slice::<O>: the body must carry the fields of O (here: "id")
from_slice_O(bytes) ==
    CASE bytes = BodyAbc -> [ok |-> TRUE, val |-> "abc"]
      [] bytes = BodyOk -> [ok |-> TRUE, val |-> "ok"]
      [] bytes = BodyBoth -> [ok |-> TRUE, val |-> "both"]
      [] OTHER -> [ok |-> FALSE, val |-> ""]

(***************************************************************************)
(* Result<O, OpenAIError> values.                                          *)
(***************************************************************************)
OkValue(v) == [kind |-> "Ok", val |-> v, error |-> NoEnvelope]
ApiError(e) == [kind |-> "ApiError", val |-> "", error |-> e]
JSONDeserialize == [kind |-> "JSONDeserialize", val |-> "", error |-> NoEnvelope]
Reqwest == [kind |-> "Reqwest", val |-> "", error |-> NoEnvelope]

process_responseEnvelopeFirst(resp) ==
    IF resp.transport # "ok" THEN Reqwest
    ELSE LET wrapped_error == from_slice_WrappedError(resp.bytes)
             response == from_slice_O(resp.bytes)
         IN  IF wrapped_error.ok THEN ApiError(wrapped_error.error)
             ELSE IF ~is_success(resp.status) \/ ~response.ok THEN JSONDeserialize
             ELSE OkValue(response.val)

\* Client::process_response, preceded by the `?` on client.execute(request)
process_response(resp) ==
    IF resp.transport # "ok" THEN Reqwest
    ELSE IF ~is_success(resp.status)
         THEN LET wrapped_error == from_slice_WrappedError(resp.bytes)
              IN  IF ~wrapped_error.ok THEN JSONDeserialize
                  ELSE ApiError(wrapped_error.error)
         ELSE LET response == from_slice_O(resp.bytes)
              IN  IF ~response.ok THEN JSONDeserialize
                  ELSE OkValue(response.val)

\* The attempt closure of Client::execute: the backoff classification of one response
Permanent(e) == [class |-> "Permanent", out |-> e]
Transient(e) == [class |-> "Transient", out |-> e]
Done(v) == [class |-> "Ok", out |-> v]

AttemptNoQuotaCheck(resp) ==
    IF resp.transport # "ok" THEN Permanent(Reqwest)
    ELSE IF ~is_success(resp.status)
         THEN LET wrapped_error == from_slice_WrappedError(resp.bytes)
              IN  IF ~wrapped_error.ok THEN Permanent(JSONDeserialize)
                  ELSE IF resp.status = RateLimitStatus
                       THEN Transient(ApiError(wrapped_error.error))
                       ELSE Permanent(ApiError(wrapped_error.error))
         ELSE LET response == from_slice_O(resp.bytes)
              IN  IF ~response.ok THEN Permanent(JSONDeserialize)
                  ELSE Done(OkValue(response.val))

AttemptRetryAnyStatus(resp) ==
    IF resp.transport # "ok" THEN Permanent(Reqwest)
    ELSE IF ~is_success(resp.status)
         THEN LET wrapped_error == from_slice_WrappedError(resp.bytes)
              IN  IF ~wrapped_error.ok THEN Permanent(JSONDeserialize)
                  ELSE IF wrapped_error.error.type # InsufficientQuota
                       THEN Transient(ApiError(wrapped_error.error))
                       ELSE Permanent(ApiError(wrapped_error.error))
         ELSE LET response == from_slice_O(resp.bytes)
              IN  IF ~response.ok THEN Permanent(JSONDeserialize)
                  ELSE Done(OkValue(response.val))

AttemptRetryBadEnvelope(resp) ==
    IF resp.transport # "ok" THEN Permanent(Reqwest)
    ELSE IF ~is_success(resp.status)
         THEN LET wrapped_error == from_slice_WrappedError(resp.bytes)
              IN  IF ~wrapped_error.ok THEN Transient(JSONDeserialize)
                  ELSE IF resp.status = RateLimitStatus
                          /\ wrapped_error.error.type # InsufficientQuota
                       THEN Transient(ApiError(wrapped_error.error))
                       ELSE Permanent(ApiError(wrapped_error.error))
         ELSE LET response == from_slice_O(resp.bytes)
              IN  IF ~response.ok THEN Permanent(JSONDeserialize)
                  ELSE Done(OkValue(response.val))

AttemptLosesTransientError(resp) ==
    IF resp.transport # "ok" THEN Permanent(Reqwest)
    ELSE IF ~is_success(resp.status)
         THEN LET wrapped_error == from_slice_WrappedError(resp.bytes)
              IN  IF ~wrapped_error.ok THEN Permanent(JSONDeserialize)
                  ELSE IF resp.status = RateLimitStatus
                          /\ wrapped_error.error.type # InsufficientQuota
                       THEN Transient(ApiError(NoEnvelope))
                       ELSE Permanent(ApiError(wrapped_error.error))
         ELSE LET response == from_slice_O(resp.bytes)
              IN  IF ~response.ok THEN Permanent(JSONDeserialize)
                  ELSE Done(OkValue(response.val))

AttemptStatusBeforeEnvelope(resp) ==
    IF resp.transport # "ok" THEN Permanent(Reqwest)
    ELSE IF ~is_success(resp.status)
         THEN LET wrapped_error == from_slice_WrappedError(resp.bytes)
              IN  IF resp.status = RateLimitStatus
                     /\ wrapped_error.error.type # InsufficientQuota
                  THEN Transient(IF wrapped_error.ok THEN ApiError(wrapped_error.error)
                                 ELSE JSONDeserialize)
                  ELSE IF ~wrapped_error.ok THEN Permanent(JSONDeserialize)
                  ELSE Permanent(ApiError(wrapped_error.error))
         ELSE LET response == from_slice_O(resp.bytes)
              IN  IF ~response.ok THEN Permanent(JSONDeserialize)
                  ELSE Done(OkValue(response.val))

AttemptEnvelopeOnAnyStatus(resp) ==
    IF resp.transport # "ok" THEN Permanent(Reqwest)
    ELSE LET wrapped_error == from_slice_WrappedError(resp.bytes)
             response == from_slice_O(resp.bytes)
         IN  IF wrapped_error.ok
             THEN IF resp.status = RateLimitStatus
                     /\ wrapped_error.error.type # InsufficientQuota
                  THEN Transient(ApiError(wrapped_error.error))
                  ELSE Permanent(ApiError(wrapped_error.error))
             ELSE IF ~is_success(resp.status) \/ ~response.ok THEN Permanent(JSONDeserialize)
             ELSE Done(OkValue(response.val))

Attempt(resp) ==
    IF resp.transport # "ok" THEN Permanent(Reqwest)
    ELSE IF ~is_success(resp.status)
         THEN LET wrapped_error == from_slice_WrappedError(resp.bytes)
              IN  IF ~wrapped_error.ok THEN Permanent(JSONDeserialize)
                  ELSE IF resp.status = RateLimitStatus
                          /\ wrapped_error.error.type # InsufficientQuota
                       THEN Transient(ApiError(wrapped_error.error))
                       ELSE Permanent(ApiError(wrapped_error.error))
         ELSE LET response == from_slice_O(resp.bytes)
              IN  IF ~response.ok THEN Permanent(JSONDeserialize)
                  ELSE Done(OkValue(response.val))


(***************************************************************************)
(* backoff::ExponentialBackoff, the policy handed to backoff::future::retry *)
(* (client.backoff, set by with_backoff).  randomization is the            *)
(* randomization_factor in halves: 0 is no jitter, 1 is a factor of 0.5.   *)
(***************************************************************************)
MaxMultiplier == 2          \* multiplier of the policy ranges over 2..MaxMultiplier
MaxIntervalCap == 3         \* max_interval of the policy ranges over 2..MaxIntervalCap

Policies ==
    [initial_interval : 1..MaxInitialInterval,
     multiplier : 2..MaxMultiplier,
     max_interval : 2..MaxIntervalCap,
     max_elapsed_time : 1..MaxElapsedTime,
     randomization : {0, 1}]

VARIABLES
    pc,                 \* position of the call: "execute", "attempt", "sleep", "once", "done"
    cloneable,          \* whether request.try_clone() yields a request
    backoff,            \* the policy of the client
    current_interval,   \* ExponentialBackoff.current_interval
    elapsed,            \* ticks since the retry loop reset the backoff
    delay,              \* the backoff delay being waited, 0 when none
    attempts,           \* number of requests sent
    delays,             \* number of backoff delays waited
    retryable429,       \* number of responses so far with status 429 and a type other than insufficient_quota
    exhausted,          \* whether next_backoff refused a further delay
    lastResp,           \* the response of the last attempt
    outcomes            \* the results returned to the caller of execute

VARIABLES
    wire,               \* the events the connection has delivered so far
    pos,                \* number of events the producer task has taken from event_source
    chan,               \* items in the unbounded channel, not yet pulled
    sent,               \* every item tx.send accepted, in order
    received,           \* the items the consumer has pulled
    rxDropped,          \* the consumer has dropped the stream (rx)
    producer,           \* "running" or "done"
    closes,             \* number of event_source.close() calls
    streamEnded         \* the consumer has seen the end of the stream

VARIABLES
    org_id,             \* Client.org_id, as bytes
    api_key,            \* Client.api_key, as bytes
    call,               \* the request method called: "get", "delete", "post", ...; "none" before
    buildPc,            \* "idle", "built", "panicked", "dispatched"
    reqHeaders,         \* the headers of the request built
    ioStarted           \* the request has been handed to execute or to the event source

execVars == <<pc, cloneable, backoff, current_interval, elapsed, delay, attempts, delays,
              retryable429, exhausted, lastResp, outcomes>>
streamVars == <<wire, pos, chan, sent, received, rxDropped, producer, closes, streamEnded>>
buildVars == <<org_id, api_key, call, buildPc, reqHeaders, ioStarted>>
vars == <<execVars, streamVars, buildVars>>

\* ExponentialBackoff::increment_current_interval
increment_current_interval(policy, cur) ==
    IF cur * policy.multiplier >= policy.max_interval
    THEN policy.max_interval
    ELSE cur * policy.multiplier

\* ExponentialBackoff::get_random_value_from_interval: the values the jitter can produce
RandomizedIntervals(policy, cur) ==
    LET delta == (policy.randomization * cur) \div 2
    IN  (cur - delta)..(cur + delta)

NoDelay == 0 - 1

\* ExponentialBackoff::next_backoff, for the randomized interval drawn
next_backoff_never_stops(policy, elapsed_time, cur, randomized_interval) ==
    [delay |-> randomized_interval,
     current_interval |-> increment_current_interval(policy, cur)]

next_backoff(policy, elapsed_time, cur, randomized_interval) ==
    IF elapsed_time > policy.max_elapsed_time
    THEN [delay |-> NoDelay, current_interval |-> cur]
    ELSE [delay |-> IF elapsed_time + randomized_interval <= policy.max_elapsed_time
                    THEN randomized_interval
                    ELSE NoDelay,
          current_interval |-> increment_current_interval(policy, cur)]

\* what the claims call a retryable 429
IsRetryable429(resp) ==
    /\ resp.transport = "ok"
    /\ resp.status = 429
    /\ resp.bytes \in {BodyRateLimit, BodyBoth}

StreamInit ==
    /\ wire = <<>>
    /\ pos = 0
    /\ chan = <<>>
    /\ sent = <<>>
    /\ received = <<>>
    /\ rxDropped = FALSE
    /\ producer = "running"
    /\ closes = 0
    /\ streamEnded = FALSE

ExecInit ==
    /\ pc = "execute"
    /\ cloneable \in BOOLEAN
    /\ backoff \in Policies
    /\ current_interval = backoff.initial_interval
    /\ elapsed = 0
    /\ delay = 0
    /\ attempts = 0
    /\ delays = 0
    /\ retryable429 = 0
    /\ exhausted = FALSE
    /\ lastResp = NoResponse
    /\ outcomes = <<>>

\* a client with the default policy bounds, before any call
IdleInit ==
    /\ pc = "execute"
    /\ cloneable = TRUE
    /\ backoff = [initial_interval |-> 1, multiplier |-> 2, max_interval |-> 2,
                  max_elapsed_time |-> 1, randomization |-> 0]
    /\ current_interval = backoff.initial_interval
    /\ elapsed = 0
    /\ delay = 0
    /\ attempts = 0
    /\ delays = 0
    /\ retryable429 = 0
    /\ exhausted = FALSE
    /\ lastResp = NoResponse
    /\ outcomes = <<>>

\* a client with no organization, before any request is built
BuildIdle ==
    /\ org_id = <<>>
    /\ api_key = <<>>
    /\ call = "none"
    /\ buildPc = "idle"
    /\ reqHeaders = <<>>
    /\ ioStarted = FALSE

InitExec == ExecInit /\ StreamInit /\ BuildIdle
InitStream == IdleInit /\ StreamInit /\ BuildIdle

\* Client::execute: match request.try_clone(); retry() resets the backoff first
Execute ==
    /\ pc = "execute"
    /\ pc' = IF cloneable THEN "attempt" ELSE "once"
    /\ current_interval' = backoff.initial_interval
    /\ elapsed' = 0
    /\ UNCHANGED <<cloneable, backoff, delay, attempts, delays, retryable429, exhausted,
                   lastResp, outcomes>>
    /\ UNCHANGED <<streamVars, buildVars>>

RetryAttemptSurfacing(resp, t) ==
    /\ pc = "attempt"
    /\ attempts' = attempts + 1
    /\ elapsed' = elapsed + t
    /\ lastResp' = resp
    /\ retryable429' = IF IsRetryable429(resp) THEN retryable429 + 1 ELSE retryable429
    /\ LET r == Attempt(resp)
       IN  /\ outcomes' = Append(outcomes, r.out)
           /\ IF r.class # "Transient"
              THEN /\ pc' = "done"
                   /\ UNCHANGED <<current_interval, delay, exhausted>>
              ELSE \E d \in RandomizedIntervals(backoff, current_interval) :
                     LET nb == next_backoff(backoff, elapsed', current_interval, d)
                     IN  /\ current_interval' = nb.current_interval
                         /\ IF nb.delay = NoDelay
                            THEN /\ pc' = "done"
                                 /\ exhausted' = TRUE
                                 /\ UNCHANGED delay
                            ELSE /\ pc' = "sleep"
                                 /\ delay' = nb.delay
                                 /\ UNCHANGED exhausted
    /\ UNCHANGED <<cloneable, backoff, delays>>
    /\ UNCHANGED <<streamVars, buildVars>>

\* One round of backoff::future::retry: the attempt closure answered by resp after t
\* ticks, then the handling of its result
RetryAttempt(resp, t) ==
    /\ pc = "attempt"
    /\ attempts' = attempts + 1
    /\ elapsed' = elapsed + t
    /\ lastResp' = resp
    /\ retryable429' = IF IsRetryable429(resp) THEN retryable429 + 1 ELSE retryable429
    /\ LET r == Attempt(resp)
       IN  IF r.class # "Transient"
           THEN /\ outcomes' = Append(outcomes, r.out)
                /\ pc' = "done"
                /\ UNCHANGED <<current_interval, delay, exhausted>>
           ELSE \E d \in RandomizedIntervals(backoff, current_interval) :
                  LET nb == next_backoff(backoff, elapsed', current_interval, d)
                  IN  /\ current_interval' = nb.current_interval
                      /\ IF nb.delay = NoDelay
                         THEN /\ outcomes' = Append(outcomes, r.out)
                              /\ pc' = "done"
                              /\ exhausted' = TRUE
                              /\ UNCHANGED delay
                         ELSE /\ pc' = "sleep"
                              /\ delay' = nb.delay
                              /\ UNCHANGED <<outcomes, exhausted>>
    /\ UNCHANGED <<cloneable, backoff, delays>>
    /\ UNCHANGED <<streamVars, buildVars>>

\* retry(): tokio sleep of the delay next_backoff returned, which lasts at least the delay
Sleep(late) ==
    /\ pc = "sleep"
    /\ elapsed' = elapsed + delay + late
    /\ delays' = delays + 1
    /\ delay' = 0
    /\ pc' = "attempt"
    /\ UNCHANGED <<cloneable, backoff, current_interval, attempts, retryable429, exhausted,
                   lastResp, outcomes>>
    /\ UNCHANGED <<streamVars, buildVars>>

\* Client::execute, None branch: one request, decoded by process_response
ExecuteOnceRetrying(resp) ==
    /\ pc = "once"
    /\ attempts' = attempts + 1
    /\ lastResp' = resp
    /\ retryable429' = IF IsRetryable429(resp) THEN retryable429 + 1 ELSE retryable429
    /\ IF IsRetryable429(resp)
       THEN UNCHANGED <<pc, outcomes>>
       ELSE /\ outcomes' = Append(outcomes, process_response(resp))
            /\ pc' = "done"
    /\ UNCHANGED <<cloneable, backoff, current_interval, elapsed, delay, delays, exhausted>>
    /\ UNCHANGED <<streamVars, buildVars>>

ExecuteOnce(resp) ==
    /\ pc = "once"
    /\ attempts' = attempts + 1
    /\ lastResp' = resp
    /\ retryable429' = IF IsRetryable429(resp) THEN retryable429 + 1 ELSE retryable429
    /\ outcomes' = Append(outcomes, process_response(resp))
    /\ pc' = "done"
    /\ UNCHANGED <<cloneable, backoff, current_interval, elapsed, delay, delays, exhausted>>
    /\ UNCHANGED <<streamVars, buildVars>>

ExecNext ==
    \/ Execute
    \/ \E resp \in Responses, t \in 1..MaxReqTime : RetryAttempt(resp, t)
    \/ \E late \in 0..MaxOvershoot : Sleep(late)
    \/ \E resp \in Responses : ExecuteOnce(resp)

SpecExec == InitExec /\ [][ExecNext]_vars

SpecExecFair == SpecExec /\ WF_vars(ExecNext)

(***************************************************************************)
(* Building a request: Client::headers and the six request methods.        *)
(* Header values are sequences of bytes.                                   *)
(***************************************************************************)
MaxOrgLen == 2              \* org_id has at most MaxOrgLen bytes

\* tab, line feed, 'o', DEL
OrgBytes == {9, 10, 111, 127}

OrgIds == UNION {[1..n -> OrgBytes] : n \in 0..MaxOrgLen}

\* "", "k"
ApiKeys == {<<>>, <<107>>}

ORGANIZATION_HEADER == "OpenAI-Organization"
AUTHORIZATION == "authorization"
CONTENT_TYPE == "content-type"

\* "Bearer "
BearerPrefix == <<66, 101, 97, 114, 101, 114, 32>>
\* "application/json"
ApplicationJson == <<97, 112, 112, 108, 105, 99, 97, 116, 105, 111, 110, 47, 106, 115, 111, 110>>
\* "multipart/form-data"
MultipartFormData == <<109, 117, 108, 116, 105, 112, 97, 114, 116, 47, 102, 111, 114, 109, 45, 100, 97, 116, 97>>

Methods == {"get", "delete", "post", "post_form", "post_stream", "get_stream"}

\* str::parse::<HeaderValue>: every byte is a tab or a visible character (>= 32, not DEL)
parse_HeaderValue(bytes) ==
    IF \A i \in 1..Len(bytes) : bytes[i] = 9 \/ (bytes[i] >= 32 /\ bytes[i] # 127)
    THEN [ok |-> TRUE, value |-> bytes]
    ELSE [ok |-> FALSE, value |-> <<>>]

headersWithoutEmptyCheck(org) ==
    LET parsed == parse_HeaderValue(org)
    IN  IF parsed.ok
        THEN [panicked |-> FALSE, map |-> (ORGANIZATION_HEADER :> parsed.value)]
        ELSE [panicked |-> TRUE, map |-> <<>>]

\* Client::headers: .parse().unwrap() panics on a value that is no header value
headers(org) ==
    IF org # <<>>
    THEN LET parsed == parse_HeaderValue(org)
         IN  IF parsed.ok
             THEN [panicked |-> FALSE, map |-> (ORGANIZATION_HEADER :> parsed.value)]
             ELSE [panicked |-> TRUE, map |-> <<>>]
    ELSE [panicked |-> FALSE, map |-> <<>>]

\* RequestBuilder::bearer_auth
bearer_auth(map, key) == (AUTHORIZATION :> (BearerPrefix \o key)) @@ map

\* RequestBuilder::headers: the given headers replace those of the same name
with_headers(map, given) == given @@ map

\* RequestBuilder::json: sets the content type unless one is set
with_json(map) ==
    IF CONTENT_TYPE \in DOMAIN map THEN map ELSE (CONTENT_TYPE :> ApplicationJson) @@ map

\* RequestBuilder::multipart
with_multipart(map) == (CONTENT_TYPE :> MultipartFormData) @@ map

\* the headers of the request each method builds, given the result of self.headers()
RequestHeaders(method, key, given) ==
    CASE method \in {"get", "delete"} -> with_headers(bearer_auth(<<>>, key), given)
      [] method = "post" -> with_json(with_headers(bearer_auth(<<>>, key), given))
      [] method = "post_form" -> with_multipart(with_headers(bearer_auth(<<>>, key), given))
      [] method = "post_stream" -> with_json(bearer_auth(with_headers(<<>>, given), key))
      [] method = "get_stream" -> bearer_auth(with_headers(<<>>, given), key)

BuildInit ==
    /\ org_id \in OrgIds
    /\ api_key \in ApiKeys
    /\ call = "none"
    /\ buildPc = "idle"
    /\ reqHeaders = <<>>
    /\ ioStarted = FALSE

InitBuild == IdleInit /\ StreamInit /\ BuildInit

\* get, delete, post, post_form, post_stream, get_stream: the request is built
Call(method) ==
    /\ buildPc = "idle"
    /\ call' = method
    /\ LET given == headers(org_id)
       IN  IF given.panicked
           THEN /\ buildPc' = "panicked"
                /\ UNCHANGED reqHeaders
           ELSE /\ buildPc' = "built"
                /\ reqHeaders' = RequestHeaders(method, api_key, given.map)
    /\ UNCHANGED <<org_id, api_key, ioStarted>>
    /\ UNCHANGED <<execVars, streamVars>>

\* self.execute(request) or Client::stream(event_source): the request goes out
Dispatch ==
    /\ buildPc = "built"
    /\ buildPc' = "dispatched"
    /\ ioStarted' = TRUE
    /\ UNCHANGED <<org_id, api_key, call, reqHeaders>>
    /\ UNCHANGED <<execVars, streamVars>>

BuildNext ==
    \/ \E method \in Methods : Call(method)
    \/ Dispatch

SpecBuild == InitBuild /\ [][BuildNext]_vars

(***************************************************************************)
(* Properties of the request builders.                                     *)
(***************************************************************************)
\* org_id holds a byte that a header value cannot hold
HasInvalidByte(org) == \E i \in 1..Len(org) : org[i] \in {10, 127}

\* C14: a request method called with an org_id that holds a byte invalid in a header
\* value returns a ConfigError as an error value, before any network I/O.
C14_InvalidOrgIdIsConfigError ==
    (call # "none" /\ HasInvalidByte(org_id))
        => (buildPc = "config_error" /\ ~ioStarted)

\* C15: for every request method, the request built carries the organization header
\* if and only if org_id is not empty, and then its value is org_id.
C15_OrgHeaderIffOrgId ==
    buildPc \in {"built", "dispatched"}
        => /\ (ORGANIZATION_HEADER \in DOMAIN reqHeaders) <=> (org_id # <<>>)
           /\ org_id # <<>> => reqHeaders[ORGANIZATION_HEADER] = org_id
           /\ reqHeaders[AUTHORIZATION] = BearerPrefix \o api_key

C15_Witness ==
    /\ buildPc = "dispatched"
    /\ call = "get_stream"
    /\ org_id = <<111, 9>>
    /\ reqHeaders[ORGANIZATION_HEADER] = <<111, 9>>

(***************************************************************************)
(* Properties of Client::execute.                                          *)
(***************************************************************************)
QuotaEnvelope == [type |-> "insufficient_quota", message |-> "no credits"]
QuotaResponse == [transport |-> "ok", status |-> 429, bytes |-> BodyQuota]

\* the error envelope a retryable 429 body carries
EnvelopeOf(resp) ==
    IF resp.bytes = BodyRateLimit
    THEN [type |-> "rate_limit_exceeded", message |-> "slow down"]
    ELSE [type |-> "server_error", message |-> "oops"]

\* C1: for a duplicable request, an attempt answered by 429 with a type other than
\* insufficient_quota is followed by a backoff delay and another attempt, unless the
\* backoff refuses a further delay, and then the call returns that ApiError; an attempt
\* answered by 429 insufficient_quota ends the call with ApiError(insufficient_quota),
\* so as a first response it gives exactly one attempt.
C1_RateLimitRetriedQuotaNot ==
    [][/\ (cloneable /\ attempts' = attempts + 1 /\ IsRetryable429(lastResp'))
            => \/ pc' = "sleep" /\ delay' > 0 /\ outcomes' = <<>> /\ ~exhausted'
               \/ /\ pc' = "done"
                  /\ exhausted'
                  /\ outcomes' = <<ApiError(EnvelopeOf(lastResp'))>>
       /\ (cloneable /\ pc = "sleep") => (pc' = "attempt" /\ attempts' = attempts)
       /\ (cloneable /\ attempts' = attempts + 1 /\ lastResp' = QuotaResponse)
            => /\ pc' = "done"
               /\ ~exhausted'
               /\ outcomes' = <<ApiError(QuotaEnvelope)>>
       /\ (cloneable /\ lastResp = QuotaResponse) => attempts' = attempts]_vars

C1_Witness ==
    /\ cloneable
    /\ pc = "done"
    /\ attempts = 2
    /\ delays = 1
    /\ lastResp = QuotaResponse

\* a response the executor must treat as permanent: a transport failure, or a
\* non-success status other than 429
IsPermanentResponse(resp) ==
    \/ resp.transport \in {"send_failed", "body_failed"}
    \/ /\ resp.transport = "ok"
       /\ ~(resp.status \in 200..299)
       /\ resp.status # 429

\* C2: for a duplicable request, after an attempt that ended in a transport failure or
\* a non-success status other than 429 the call is over, with that error as its only
\* result, whatever the number of earlier transient attempts.
C2_PermanentEndsCall ==
    (cloneable /\ attempts > 0 /\ IsPermanentResponse(lastResp))
        => /\ pc = "done"
           /\ ~exhausted
           /\ Len(outcomes) = 1
           /\ attempts = retryable429 + 1
           /\ IF lastResp.transport # "ok"
              THEN outcomes[1] = Reqwest
              ELSE outcomes[1].kind \in {"ApiError", "JSONDeserialize"}

C2_Witness ==
    /\ cloneable
    /\ attempts = 3
    /\ pc = "done"
    /\ lastResp.transport = "body_failed"

\* C3: a non-duplicable request is sent exactly once whatever the response (a
\* retryable 429 included), waits no backoff delay, and its result is the response
\* decoded by process_response.
C3_NonCloneableOnce ==
    ~cloneable
        => /\ attempts <= 1
           /\ delays = 0
           /\ pc \in {"execute", "once", "done"}
           /\ pc = "done" => /\ attempts = 1
                             /\ outcomes = <<process_response(lastResp)>>
                             /\ IsRetryable429(lastResp)
                                   => outcomes = <<ApiError(EnvelopeOf(lastResp))>>

C3_Witness ==
    /\ ~cloneable
    /\ pc = "done"
    /\ attempts = 1
    /\ IsRetryable429(lastResp)

\* a success response whose body decodes as O
IsDecodableSuccess(resp) ==
    /\ resp.transport = "ok"
    /\ resp.status \in 200..299
    /\ resp.bytes \in {BodyAbc, BodyOk, BodyBoth}

\* C4: for a duplicable request answered by k retryable 429 responses and then a
\* success response with a decodable body, the call makes exactly k + 1 attempts,
\* waits exactly k backoff delays and returns Ok with the value of the last response.
C4_SuccessAfterRetries ==
    (cloneable /\ attempts > 0 /\ IsDecodableSuccess(lastResp))
        => /\ pc = "done"
           /\ attempts = retryable429 + 1
           /\ delays = retryable429
           /\ ~exhausted
           /\ outcomes = <<OkValue(from_slice_O(lastResp.bytes).val)>>

C4_Witness ==
    /\ cloneable
    /\ pc = "done"
    /\ attempts = 3
    /\ delays = 2
    /\ retryable429 = 2
    /\ lastResp = [transport |-> "ok", status |-> 200, bytes |-> BodyOk]
    /\ outcomes = <<OkValue("ok")>>

\* C5: the retry loop of a duplicable request ends: the call always returns; an
\* attempt that ends after max_elapsed_time has been exceeded is the last one, and a
\* delay is waited only if it ends within max_elapsed_time; and when the backoff
\* refuses a further delay the call returns the ApiError of the last attempt.
C5_RetryLoopEnds ==
    /\ <>(pc = "done")
    /\ [][(cloneable /\ attempts' = attempts + 1 /\ elapsed' > backoff.max_elapsed_time)
             => pc' = "done"]_vars
    /\ [](pc = "sleep" => elapsed + delay <= backoff.max_elapsed_time)
    /\ [](exhausted => /\ pc = "done"
                       /\ IsRetryable429(lastResp)
                       /\ attempts = retryable429
                       /\ outcomes = <<ApiError(EnvelopeOf(lastResp))>>)

C5_Witness ==
    /\ cloneable
    /\ exhausted
    /\ pc = "done"
    /\ attempts = 3
    /\ elapsed > backoff.max_elapsed_time

CeilDiv(a, b) == (a + b - 1) \div b

Min(S) == CHOOSE x \in S : \A y \in S : x <= y

\* the least delay the policy can wait between two attempts
LeastDelay(policy) ==
    Min(RandomizedIntervals(policy, policy.initial_interval)
        \cup RandomizedIntervals(policy, policy.max_interval))

\* C6, as stated: a duplicable request is attempted at most
\* ceil(max_elapsed_time / effective_interval) times, the effective interval (the
\* delay between consecutive attempts) being at least the initial interval.
C6_AttemptsAtMostCeilOfInitial ==
    cloneable => attempts <= CeilDiv(backoff.max_elapsed_time, backoff.initial_interval)

\* C6, amended: a duplicable request is attempted at most
\* ceil(max_elapsed_time / least_delay) times, least_delay being the least delay the
\* policy can draw: the randomization factor puts it below the initial interval.
C6_AttemptsAtMostCeilOfLeastDelay ==
    cloneable => attempts <= CeilDiv(backoff.max_elapsed_time, LeastDelay(backoff))

C6_Witness ==
    /\ cloneable
    /\ pc = "done"
    /\ exhausted
    /\ attempts > CeilDiv(backoff.max_elapsed_time, backoff.initial_interval)
    /\ attempts >= 3

\* C7: a non-streaming call returns exactly one result to its caller, when it ends and
\* not before, and the result is that of the last attempt: the errors of earlier,
\* transient attempts are not returned.
C7_OneOutcome ==
    /\ Len(outcomes) = IF pc = "done" THEN 1 ELSE 0
    /\ pc = "done" => outcomes = <<process_response(lastResp)>>

C7_Witness ==
    /\ pc = "done"
    /\ cloneable
    /\ attempts = 3
    /\ retryable429 = 2
    /\ outcomes[1].kind = "JSONDeserialize"

\* what the decoder owes for a status and the bytes of a body
ExpectedDecode(status, bytes) ==
    IF status \in 200..299
    THEN IF from_slice_O(bytes).ok
         THEN OkValue(from_slice_O(bytes).val)
         ELSE JSONDeserialize
    ELSE IF from_slice_WrappedError(bytes).ok
         THEN ApiError(from_slice_WrappedError(bytes).error)
         ELSE JSONDeserialize

\* C16: the result process_response returns for a response whose body was read is
\* determined by its status and bytes alone: on a non-success status ApiError(envelope)
\* when the bytes parse as an error envelope and JSONDeserialize otherwise, never Ok; on
\* a success status Ok(value) when the bytes parse as O and JSONDeserialize otherwise,
\* never ApiError.
C16_DecoderByStatusAndBytes ==
    (~cloneable /\ pc = "done" /\ lastResp.transport = "ok")
        => /\ outcomes = <<ExpectedDecode(lastResp.status, lastResp.bytes)>>
           /\ lastResp.status \in 200..299 => outcomes[1].kind \in {"Ok", "JSONDeserialize"}
           /\ ~(lastResp.status \in 200..299)
                 => outcomes[1].kind \in {"ApiError", "JSONDeserialize"}

C16_Witness ==
    /\ ~cloneable
    /\ pc = "done"
    /\ lastResp = [transport |-> "ok", status |-> 200, bytes |-> BodyBoth]
    /\ outcomes = <<OkValue("both")>>

\* C18: for a duplicable request, a non-success response whose body is no error
\* envelope ends the call with JSONDeserialize and no further attempt, also when its
\* status is 429.
C18_BadEnvelopeIsPermanent ==
    (/\ cloneable
     /\ attempts > 0
     /\ lastResp.transport = "ok"
     /\ ~(lastResp.status \in 200..299)
     /\ lastResp.bytes \in {BodyAbc, BodyOk, BodyGarbage})
        => /\ pc = "done"
           /\ ~exhausted
           /\ outcomes = <<JSONDeserialize>>
           /\ attempts = retryable429 + 1

C18_Witness ==
    /\ cloneable
    /\ pc = "done"
    /\ attempts = 2
    /\ lastResp = [transport |-> "ok", status |-> 429, bytes |-> BodyGarbage]
    /\ outcomes = <<JSONDeserialize>>

\* C20: for a response that is not a retryable 429, the retrying path of execute ends
\* after its first attempt with the result the non-retrying path gives for the same
\* response: the one the decoder owes for its status and bytes.
C20_PathsAgree ==
    (/\ pc = "done"
     /\ attempts = 1
     /\ lastResp.transport = "ok"
     /\ ~IsRetryable429(lastResp))
        => /\ ~exhausted
           /\ delays = 0
           /\ outcomes = <<ExpectedDecode(lastResp.status, lastResp.bytes)>>

C20_Witness ==
    /\ cloneable
    /\ pc = "done"
    /\ attempts = 1
    /\ lastResp = [transport |-> "ok", status |-> 404, bytes |-> BodyBoth]
    /\ outcomes = <<ApiError([type |-> "server_error", message |-> "oops"])>>

(***************************************************************************)
(* Client::stream.  The connection (reqwest_eventsource::EventSource)      *)
(* delivers events; event_source.next() hands them to the producer task    *)
(* one at a time, and yields None once the event source has ended.         *)
(***************************************************************************)
MaxEvents == 5              \* the connection delivers at most MaxEvents events

DoneSentinel == "[DONE]"
DataOne == "{\"id\":1}"
DataTwo == "{\"id\":2}"
DataGarbage == "not-json"

Payloads == {DoneSentinel, DataOne, DataTwo, DataGarbage}

OpenEvent == [kind |-> "Open", data |-> ""]
ErrEvent == [kind |-> "Err", data |-> ""]
EndOfEvents == [kind |-> "None", data |-> ""]
Message(data) == [kind |-> "Message", data |-> data]

Events == {OpenEvent, ErrEvent, EndOfEvents} \cup {Message(d) : d \in Payloads}

\* serde_json::from_str::<O> on the data of a message
from_str_O(data) ==
    CASE data = DataOne -> [ok |-> TRUE, val |-> 1]
      [] data = DataTwo -> [ok |-> TRUE, val |-> 2]
      [] OTHER -> [ok |-> FALSE, val |-> 0]

\* the items of the stream: Result<O, OpenAIError>
OkItem(v) == [kind |-> "Ok", val |-> v]
JSONDeserializeItem == [kind |-> "JSONDeserialize", val |-> 0]
StreamErrorItem == [kind |-> "StreamError", val |-> 0]

\* the server side of the connection: one more event reaches the event source
Arrive(ev) ==
    /\ closes = 0
    /\ Len(wire) < MaxEvents
    /\ IF wire = <<>> THEN TRUE ELSE wire[Len(wire)] # EndOfEvents
    /\ wire' = Append(wire, ev)
    /\ UNCHANGED <<pos, chan, sent, received, rxDropped, producer, closes, streamEnded>>
    /\ UNCHANGED <<execVars, buildVars>>

PublishAtFront(item) ==
    IF rxDropped
    THEN /\ producer' = "done"
         /\ closes' = closes + 1
         /\ UNCHANGED <<chan, sent>>
    ELSE /\ chan' = <<item>> \o chan
         /\ sent' = Append(sent, item)
         /\ UNCHANGED <<producer, closes>>

PublishWhenRoom(item) ==
    IF rxDropped
    THEN /\ producer' = "done"
         /\ closes' = closes + 1
         /\ UNCHANGED <<chan, sent>>
    ELSE /\ Len(chan) < 2
         /\ chan' = Append(chan, item)
         /\ sent' = Append(sent, item)
         /\ UNCHANGED <<producer, closes>>

PublishIgnoringFailure(item) ==
    IF rxDropped
    THEN UNCHANGED <<chan, sent, producer, closes>>
    ELSE /\ chan' = Append(chan, item)
         /\ sent' = Append(sent, item)
         /\ UNCHANGED <<producer, closes>>

\* tx.send(item): fails exactly when rx has been dropped
Publish(item) ==
    IF rxDropped
    THEN \* rx dropped: break, then event_source.close()
         /\ producer' = "done"
         /\ closes' = closes + 1
         /\ UNCHANGED <<chan, sent>>
    ELSE /\ chan' = Append(chan, item)
         /\ sent' = Append(sent, item)
         /\ UNCHANGED <<producer, closes>>

TerminateWithoutClose ==
    /\ producer' = "done"
    /\ UNCHANGED <<chan, sent, closes>>

\* the loop ends: event_source.close(), the task finishes and tx is dropped
Terminate ==
    /\ producer' = "done"
    /\ closes' = closes + 1
    /\ UNCHANGED <<chan, sent>>

\* Event::Message(message): the sentinel ends the loop, any other data is decoded and
\* published
HandleMessagePublishingSentinel(data) ==
    LET parsed == from_str_O(data)
        response == IF parsed.ok THEN OkItem(parsed.val) ELSE JSONDeserializeItem
    IN  Publish(response)

HandleMessageBreakOnBadJson(data) ==
    IF data = DoneSentinel
    THEN Terminate
    ELSE LET parsed == from_str_O(data)
         IN  IF parsed.ok THEN Publish(OkItem(parsed.val))
             ELSE /\ chan' = Append(chan, JSONDeserializeItem)
                  /\ sent' = Append(sent, JSONDeserializeItem)
                  /\ producer' = "done"
                  /\ closes' = closes + 1

HandleMessage(data) ==
    IF data = DoneSentinel
    THEN Terminate
    ELSE LET parsed == from_str_O(data)
             response == IF parsed.ok THEN OkItem(parsed.val) ELSE JSONDeserializeItem
         IN  Publish(response)

\* one iteration of `while let Some(ev) = event_source.next().await`
ProducerStep ==
    /\ producer = "running"
    /\ pos < Len(wire)
    /\ pos' = pos + 1
    /\ LET ev == wire[pos + 1]
       IN  CASE ev.kind = "None" -> Terminate
             [] ev.kind = "Err" -> Publish(StreamErrorItem)
             [] ev.kind = "Open" -> UNCHANGED <<chan, sent, producer, closes>>
             [] ev.kind = "Message" -> HandleMessage(ev.data)
    /\ UNCHANGED <<wire, received, rxDropped, streamEnded>>
    /\ UNCHANGED <<execVars, buildVars>>

\* the consumer polls the UnboundedReceiverStream and gets the next item
Recv ==
    /\ ~rxDropped
    /\ chan # <<>>
    /\ received' = Append(received, Head(chan))
    /\ chan' = Tail(chan)
    /\ UNCHANGED <<wire, pos, sent, rxDropped, producer, closes, streamEnded>>
    /\ UNCHANGED <<execVars, buildVars>>

\* the consumer polls an empty channel whose sender is gone: the stream ends
RecvEnd ==
    /\ ~rxDropped
    /\ ~streamEnded
    /\ chan = <<>>
    /\ producer = "done"
    /\ streamEnded' = TRUE
    /\ UNCHANGED <<wire, pos, chan, sent, received, rxDropped, producer, closes>>
    /\ UNCHANGED <<execVars, buildVars>>

\* the consumer drops the stream: rx is dropped with whatever the channel still holds
Drop ==
    /\ ~rxDropped
    /\ rxDropped' = TRUE
    /\ chan' = <<>>
    /\ UNCHANGED <<wire, pos, sent, received, producer, closes, streamEnded>>
    /\ UNCHANGED <<execVars, buildVars>>

StreamNext ==
    \/ \E ev \in Events : Arrive(ev)
    \/ ProducerStep
    \/ Recv
    \/ RecvEnd
    \/ Drop

SpecStream == InitStream /\ [][StreamNext]_vars

(***************************************************************************)
(* Properties of Client::stream.                                           *)
(***************************************************************************)
ValidMessages == {Message(DataOne), Message(DataTwo)}

RECURSIVE OkItemsOf(_)
\* the Ok items of the valid messages of a sequence of events, in order
OkItemsOf(events) ==
    IF events = <<>> THEN <<>>
    ELSE LET rest == OkItemsOf(Tail(events))
             ev == Head(events)
         IN  IF ev = Message(DataOne) THEN <<OkItem(1)>> \o rest
             ELSE IF ev = Message(DataTwo) THEN <<OkItem(2)>> \o rest
             ELSE rest

IsPrefix(p, q) == Len(p) <= Len(q) /\ p = SubSeq(q, 1, Len(p))

\* the events up to the d-th are valid messages and Open events, the d-th is [DONE]
EndsGracefullyAt(d) ==
    /\ d \in 1..Len(wire)
    /\ wire[d] = Message(DoneSentinel)
    /\ \A i \in 1..(d - 1) : wire[i] = OpenEvent \/ wire[i] \in ValidMessages

\* C8: when the connection delivers N valid messages (with Open events among them) and
\* then [DONE], the producer stops at the sentinel and closes the connection, every
\* item it published is the Ok item of a valid message, in order, and a consumer that
\* sees the stream end has received exactly those N Ok items.
C8_GracefulEnd ==
    \A d \in 1..Len(wire) :
        EndsGracefullyAt(d) =>
            LET expected == OkItemsOf(SubSeq(wire, 1, d - 1))
            IN  /\ pos <= d
                /\ IsPrefix(sent, expected)
                /\ IsPrefix(received, sent)
                /\ pos = d => (producer = "done" /\ closes = 1 /\ sent = expected)
                /\ streamEnded => (pos = d /\ received = expected)

C8_Witness ==
    /\ Len(wire) = 5
    /\ EndsGracefullyAt(4)
    /\ wire[2] = OpenEvent
    /\ wire[5] = Message(DataTwo)
    /\ streamEnded
    /\ ~rxDropped
    /\ received = <<OkItem(2), OkItem(1)>>

\* the events the producer has taken include an Err event
ConsumedErr == \E i \in 1..pos : wire[i] = ErrEvent

\* C9: once the producer has taken an Err event from the connection it has terminated,
\* that event is the last one it took, and it has published at most one StreamError.
C9_OneStreamErrorThenEnd ==
    ConsumedErr =>
        /\ producer = "done"
        /\ wire[pos] = ErrEvent
        /\ Cardinality({i \in 1..Len(sent) : sent[i] = StreamErrorItem}) <= 1

C11_BadJsonDoesNotEndStream ==
    [][(~rxDropped /\ producer = "running" /\ pos' = pos + 1)
           => /\ wire[pos + 1] = Message(DataGarbage)
                    => /\ sent' = Append(sent, JSONDeserializeItem)
                       /\ chan' = Append(chan, JSONDeserializeItem)
                       /\ producer' = "running"
                       /\ closes' = 0
              /\ wire[pos + 1] = Message(DataOne)
                    => /\ sent' = Append(sent, OkItem(1))
                       /\ producer' = "running"
              /\ wire[pos + 1] = Message(DataTwo)
                    => /\ sent' = Append(sent, OkItem(2))
                       /\ producer' = "running"]_vars

C11_Witness ==
    /\ ~rxDropped
    /\ wire = <<Message(DataGarbage), Message(DataOne), Message(DoneSentinel)>>
    /\ received = <<JSONDeserializeItem, OkItem(1)>>
    /\ streamEnded

RECURSIVE ItemsInArrivalOrder(_)
\* the items of a sequence of events, in order: a valid message gives its Ok item, any
\* other data a JSONDeserialize item, an error event a StreamError item; nothing follows
\* [DONE] or the end of the events
ItemsInArrivalOrder(events) ==
    IF events = <<>> THEN <<>>
    ELSE LET ev == Head(events)
             rest == ItemsInArrivalOrder(Tail(events))
         IN  IF ev = EndOfEvents \/ ev = Message(DoneSentinel) THEN <<>>
             ELSE IF ev = OpenEvent THEN rest
             ELSE IF ev = ErrEvent THEN <<StreamErrorItem>> \o rest
             ELSE IF ev = Message(DataOne) THEN <<OkItem(1)>> \o rest
             ELSE IF ev = Message(DataTwo) THEN <<OkItem(2)>> \o rest
             ELSE <<JSONDeserializeItem>> \o rest

\* C12: in every state the items the consumer has received are a prefix of the items
\* published, and these are a prefix of the items of the events taken, in arrival
\* order; while the consumer holds the stream, the received items followed by the
\* buffered ones are exactly the published ones, and these are the items of all the
\* events taken.
C12_FifoOrder ==
    /\ IsPrefix(received, sent)
    /\ IsPrefix(sent, ItemsInArrivalOrder(SubSeq(wire, 1, pos)))
    /\ ~rxDropped => /\ received \o chan = sent
                     /\ sent = ItemsInArrivalOrder(SubSeq(wire, 1, pos))

C12_Witness ==
    /\ ~rxDropped
    /\ pos = 4
    /\ sent = <<OkItem(2), StreamErrorItem, JSONDeserializeItem, OkItem(1)>>
    /\ received = <<OkItem(2), StreamErrorItem>>
    /\ chan = <<JSONDeserializeItem, OkItem(1)>>

\* C13: the producer never waits for the consumer: whenever it is running and an event
\* is there, its step is possible whatever the number of items not yet pulled; and with
\* a consumer that holds the stream and has pulled nothing, every published item is
\* still in the channel, also after the producer has terminated.
C13_NoBackpressure ==
    /\ (producer = "running" /\ pos < Len(wire)) => ENABLED ProducerStep
    /\ (~rxDropped /\ received = <<>>) => chan = sent

C13_Witness ==
    /\ ~rxDropped
    /\ received = <<>>
    /\ Len(chan) = 4
    /\ pos = 5
    /\ wire[5] = Message(DoneSentinel)
    /\ producer = "done"
    /\ closes = 1

\* an event that makes the producer publish an item
IsPublishing(ev) == ev = ErrEvent \/ (ev.kind = "Message" /\ ev.data # DoneSentinel)

\* C17: when the producer takes a publishing event after the consumer has dropped the
\* stream, the publish fails, nothing is added to the channel, the loop ends and the
\* connection is closed in that step; a terminated producer takes no further event and
\* publishes nothing.
C17_FailedPublishEndsLoop ==
    [][/\ (rxDropped /\ producer = "running" /\ pos' = pos + 1 /\ IsPublishing(wire[pos + 1]))
            => /\ producer' = "done"
               /\ closes' = 1
               /\ sent' = sent
               /\ chan' = chan
       /\ producer = "done"
            => /\ producer' = "done"
               /\ pos' = pos
               /\ sent' = sent
               /\ closes' = closes]_vars

C17_Witness ==
    /\ rxDropped
    /\ producer = "done"
    /\ closes = 1
    /\ pos = 2
    /\ Len(wire) = 4
    /\ wire[1] = Message(DataOne)
    /\ wire[2] = ErrEvent
    /\ sent = <<OkItem(1)>>

\* C19: the connection is closed exactly when the producer has terminated, and once;
\* nothing is published after the close; and a consumer that has seen the stream end
\* has received all the published items and receives nothing more.
C19_ClosedOnceAtEveryExit ==
    /\ [](closes = IF producer = "done" THEN 1 ELSE 0)
    /\ [][closes = 1 => (sent' = sent /\ closes' = 1)]_vars
    /\ [](streamEnded => (producer = "done" /\ received = sent))
    /\ [][streamEnded => (received' = received /\ streamEnded')]_vars

C19_Witness ==
    /\ streamEnded
    /\ closes = 1
    /\ pos = 3
    /\ wire = <<Message(DataOne), ErrEvent, EndOfEvents>>
    /\ received = <<OkItem(1), StreamErrorItem>>

====
